---- MODULE Spec2Model ----
(***************************************************************************)
(* State-machine model of the retrieval core of ChatBot_Fun_Project:       *)
(* core/rag.py (RagPipeline: upsert, _load_index, retrieve,                *)
(* build_context_prompt, make_doc_id), core/utils.py (hash_bytes,          *)
(* chunk_text, truncate_text) and core/doc_ingest.py (DocumentIngestor).   *)
(*                                                                         *)
(* Abstractions.                                                           *)
(*  - A chunk text is an element of Texts; its embedding is Vec(t), a      *)
(*    small integer vector standing for the normalized float32 row, and    *)
(*    the similarity is the integer dot product.                           *)
(*  - A string is modelled by its length where only the length matters     *)
(*    (build_context_prompt, truncate_text).                               *)
(*  - The embedding matrix file, the metadata document and the native      *)
(*    index file of one doc_id are three separate values, written by       *)
(*    three separate steps of upsert, so that a crash or a second caller   *)
(*    can fall between them.                                               *)
(*  - The two optional imports of rag.py (sentence_transformers, faiss)    *)
(*    are resolved once per process: stAvailable and faissAvailable are    *)
(*    chosen when a process starts and stay fixed until it ends.           *)
(*  - The order that np.argsort (default kind, not stable) and the native  *)
(*    index give to rows of exactly equal score is not fixed by the code:  *)
(*    each search draws it (TieOrders), and a comparison of two searches   *)
(*    of one build gives both the same order.                              *)
(***************************************************************************)
EXTENDS Integers, Sequences, FiniteSets, TLC

VARIABLES
    stAvailable,      \* rag.py:12-18  SentenceTransformer is not None
    faissAvailable,   \* rag.py:20-23  faiss is not None
    maxContextChars,  \* self.config.max_context_chars
    embedder,         \* self._embedder is not None
    constructions,    \* history: calls of SentenceTransformer(...) in this process
    cache,            \* self._index_cache
    npyFile,          \* <doc_dir>/embeddings.npy
    metaFile,         \* <doc_dir>/metadata.json
    indexFile,        \* <doc_dir>/index.faiss
    pc,               \* position of each caller inside upsert
    call,             \* arguments and locals of each caller's upsert
    ret,              \* outcome of the operation that returned last
    completed,        \* history: chunks of the last upsert of a doc that returned in this process
    built,            \* history: the entry the last upsert of a doc that returned installed (any process)
    npyWriter,        \* history: caller that wrote npyFile[d] last in this process
    metaWriter,       \* history: caller that wrote metaFile[d] last in this process
    cacheWriter,      \* history: caller that installed cache[d] last in this process
    crashes,          \* history: number of processes that died inside an operation
    docIds,           \* make_doc_id: two calls, their arguments and the identities returned
    chunking,         \* chunk_text: the arguments of a call and the windows it returned
    extraction        \* DocumentIngestor: the file of a call, what fails on it, what it returned

vars == <<stAvailable, faissAvailable, maxContextChars,
          embedder, constructions, cache, npyFile, metaFile, indexFile, pc, call, ret,
          completed, built, npyWriter, metaWriter, cacheWriter, crashes,
          docIds, chunking, extraction>>

envVars == <<stAvailable, faissAvailable, maxContextChars>>
fileVars == <<npyFile, metaFile, indexFile>>
histVars == <<completed, built, npyWriter, metaWriter, cacheWriter, crashes>>

\* the calls of the functions that keep no state: untouched by the pipeline
utilVars == <<docIds, chunking, extraction>>

\* the pipeline, its storage and its callers: untouched by those functions
ragVars == <<envVars, embedder, constructions, cache, fileVars, pc, call, ret, histVars>>

---------------------------------------------------------------------------
(* Bounds and input domains *)

MaxChunks == 2
MaxTopK == 1
MaxCrashes == 1
MaxBytes == 2
MaxWords == 3
MaxChunkSize == 3
MaxPages == 2

Docs == {"d1"}
Texts == {1, 2}
Callers == {1, 2}
SeqCallers == {1}
Queries == {"", " ", "qa", "qc"}
TopKs == 0 .. MaxTopK          \* 0 stands for both None and 0: `top_k or default`

ChunkLists == UNION {[1 .. n -> Texts] : n \in 0 .. MaxChunks}

(* RagConfig defaults *)
DefaultTopK == 4
DefaultMaxContextChars == 2200
EmbeddingModel == "all-MiniLM-L6-v2"

\* values of RagConfig.max_context_chars the pipeline is constructed with
ContextBudgets == {2, 30, DefaultMaxContextChars}

---------------------------------------------------------------------------
(* Texts, embeddings *)

\* len(text.strip()): a short chunk, and a chunk of the default 600 tokens
StripLen(t) == IF t % 2 = 1 THEN 10 ELSE 2600

\* embedder.encode(..., normalize_embeddings=True) of one chunk
Vec(t) == IF t % 2 = 1 THEN <<2, 1>> ELSE <<1, 2>>

\* embedder.encode([query], normalize_embeddings=True)
QVec(q) == IF q = "qa" THEN <<1, 0>> ELSE <<1, 1>>

\* not query.strip()
StripEmpty(q) == q \in {"", " "}

\* embeddings = embedder.encode(chunks, ...).astype("float32")
Encode(chunks) == [i \in 1 .. Len(chunks) |-> Vec(chunks[i])]

\* doc_meta = [{"text": chunk, "metadata": {"chunk_index": idx}} ...]
DocMeta(chunks) == [i \in 1 .. Len(chunks) |-> [text |-> chunks[i], chunk_index |-> i - 1]]

Dot(u, v) == u[1] * v[1] + u[2] * v[2]

Min(a, b) == IF a <= b THEN a ELSE b
Max(a, b) == IF a >= b THEN a ELSE b

\* the orders a sort that is not stable can give to two equal scores:
\* "asc" the smaller row first, "desc" the larger row first
TieOrders == {"asc", "desc"}

---------------------------------------------------------------------------
(* Files and cache entries *)

NoFile == [exists |-> FALSE, data |-> <<>>]
File(d) == [exists |-> TRUE, data |-> d]

\* json.dump({"chunks": doc_meta, "embedding_model": self.embedding_model})
MetaDoc(doc_meta) == [chunks |-> doc_meta, embedding_model |-> EmbeddingModel]
NoMetaFile == [exists |-> FALSE, data |-> [chunks |-> <<>>, embedding_model |-> ""]]

NoEntry == [present |-> FALSE, hasIndex |-> FALSE, index |-> <<>>, meta |-> <<>>, emb |-> <<>>]
Entry(hasIndex, index, meta, emb) ==
    [present |-> TRUE, hasIndex |-> hasIndex, index |-> index, meta |-> meta, emb |-> emb]

NoCall == [doc |-> "", chunks |-> <<>>]

Blank == [op |-> "start", doc |-> "", query |-> "", k |-> 0, chunks |-> <<>>,
          err |-> "none", results |-> <<>>, out |-> "none", blocks |-> <<>>,
          path |-> "none", diskRead |-> FALSE]

---------------------------------------------------------------------------
\* the imports of rag.py:12-23 and RagPipeline.__init__, rag.py:45-50, over an
\* empty storage directory
InitStore ==
    /\ stAvailable \in BOOLEAN
    /\ faissAvailable \in BOOLEAN
    /\ embedder = FALSE
    /\ constructions = 0
    /\ cache = [d \in Docs |-> NoEntry]
    /\ npyFile = [d \in Docs |-> NoFile]
    /\ metaFile = [d \in Docs |-> NoMetaFile]
    /\ indexFile = [d \in Docs |-> NoFile]
    /\ pc = [t \in Callers |-> "idle"]
    /\ call = [t \in Callers |-> NoCall]
    /\ ret = Blank
    /\ completed = [d \in Docs |-> <<>>]
    /\ built = [d \in Docs |-> NoEntry]
    /\ npyWriter = [d \in Docs |-> 0]
    /\ metaWriter = [d \in Docs |-> 0]
    /\ cacheWriter = [d \in Docs |-> 0]
    /\ crashes = 0

\* no call of make_doc_id, chunk_text or the ingestor is under way
UtilIdle ==
    /\ docIds = <<>>
    /\ chunking = [pc |-> "none"]
    /\ extraction = [pc |-> "none"]

\* the pipeline with the default RagConfig
Init == InitStore /\ maxContextChars = DefaultMaxContextChars /\ UtilIdle

\* the pipeline with any of the context budgets
InitCtx == InitStore /\ maxContextChars \in ContextBudgets /\ UtilIdle

---------------------------------------------------------------------------
(* upsert, rag.py:73-99, one action per step that touches shared state *)

Idle(t) == pc[t] \in {"idle", "done"}

\* mutant: the empty check tests for a missing argument only (`if chunks is None`)
UpsertRejectsNothing(chunks) == FALSE

\* rag.py:74  `if not chunks`
UpsertRejects(chunks) == chunks = <<>>

\* mutant: the file is written only when it does not exist yet
NpyKeptIfPresent(d, chunks) ==
    IF npyFile[d].exists THEN npyFile ELSE [npyFile EXCEPT ![d] = File(Encode(chunks))]

\* rag.py:89  np.save(npy_path, embeddings)
NpyAfterSave(d, chunks) == [npyFile EXCEPT ![d] = File(Encode(chunks))]

\* rag.py:90-91  the metadata document, opened with "w"
MetaAfterDump(d, chunks) == [metaFile EXCEPT ![d] = File(MetaDoc(DocMeta(chunks)))]

\* rag.py:95-97  faiss.IndexFlatIP + add + write_index
IndexAfterWrite(d, chunks) == [indexFile EXCEPT ![d] = File(Encode(chunks))]

\* rag.py:93-99  the tuple (index_obj, doc_meta, embeddings) of a call
BuiltEntry(chunks, withIndex) ==
    Entry(withIndex, IF withIndex THEN Encode(chunks) ELSE <<>>, DocMeta(chunks), Encode(chunks))

\* mutant: an entry already in the cache is kept (setdefault)
CacheKeptIfPresent(d, chunks) ==
    IF cache[d].present THEN cache
    ELSE [cache EXCEPT ![d] = BuiltEntry(chunks, faissAvailable)]

\* rag.py:99  self._index_cache[doc_id] = (...)
CacheAfterInstall(d, chunks) == [cache EXCEPT ![d] = BuiltEntry(chunks, faissAvailable)]

\* mutant: the model is constructed by every call that needs it
ConstructionsEveryGet == constructions + 1

\* rag.py:58-59  `if self._embedder is None: self._embedder = SentenceTransformer(...)`
ConstructionsAfterGet == IF embedder THEN constructions ELSE constructions + 1

\* the outcomes upsert reports
UpsertRaised(d, chunks, err) ==
    [Blank EXCEPT !.op = "upsert", !.doc = d, !.chunks = chunks, !.err = err]
UpsertReturned(d, chunks) == [Blank EXCEPT !.op = "upsert", !.doc = d, !.chunks = chunks]
UpsertRunning(d, chunks) == [Blank EXCEPT !.op = "upserting", !.doc = d, !.chunks = chunks]

\* rag.py:73-99: the whole handler, run without interruption
Upsert(t, d, chunks) ==
    /\ Idle(t)
    /\ IF UpsertRejects(chunks)
       THEN /\ ret' = UpsertRaised(d, chunks, "ValueError")
            /\ UNCHANGED <<embedder, constructions, cache, fileVars, histVars>>
       ELSE IF ~stAvailable
       THEN /\ ret' = UpsertRaised(d, chunks, "RuntimeError")
            /\ UNCHANGED <<embedder, constructions, cache, fileVars, histVars>>
       ELSE /\ embedder' = TRUE
            /\ constructions' = ConstructionsAfterGet
            /\ npyFile' = NpyAfterSave(d, chunks)
            /\ metaFile' = MetaAfterDump(d, chunks)
            /\ indexFile' = IF faissAvailable THEN IndexAfterWrite(d, chunks) ELSE indexFile
            /\ cache' = CacheAfterInstall(d, chunks)
            /\ ret' = UpsertReturned(d, chunks)
            /\ completed' = [completed EXCEPT ![d] = chunks]
            /\ built' = [built EXCEPT ![d] = BuiltEntry(chunks, faissAvailable)]
            /\ npyWriter' = [npyWriter EXCEPT ![d] = t]
            /\ metaWriter' = [metaWriter EXCEPT ![d] = t]
            /\ cacheWriter' = [cacheWriter EXCEPT ![d] = t]
            /\ UNCHANGED crashes
    /\ UNCHANGED <<envVars, pc, call, utilVars>>

(* The same handler, one action per step that touches shared state, for the *)
(* runs in which the process dies inside upsert or a second caller runs     *)
(* beside it.                                                               *)

\* rag.py:73-86: the empty check, _get_embedder, encode, doc_meta
UpsertBegin(t, d, chunks) ==
    /\ Idle(t)
    /\ IF UpsertRejects(chunks)
       THEN /\ ret' = UpsertRaised(d, chunks, "ValueError")
            /\ UNCHANGED <<embedder, constructions, pc, call>>
       ELSE IF ~stAvailable
       THEN /\ ret' = UpsertRaised(d, chunks, "RuntimeError")
            /\ UNCHANGED <<embedder, constructions, pc, call>>
       ELSE /\ embedder' = TRUE
            /\ constructions' = ConstructionsAfterGet
            /\ call' = [call EXCEPT ![t] = [doc |-> d, chunks |-> chunks]]
            /\ pc' = [pc EXCEPT ![t] = "npy"]
            /\ ret' = UpsertRunning(d, chunks)
    /\ UNCHANGED <<envVars, cache, fileVars, histVars, utilVars>>

\* rag.py:88-89
WriteNpy(t) ==
    /\ pc[t] = "npy"
    /\ npyFile' = NpyAfterSave(call[t].doc, call[t].chunks)
    /\ npyWriter' = [npyWriter EXCEPT ![call[t].doc] = t]
    /\ pc' = [pc EXCEPT ![t] = "meta"]
    /\ UNCHANGED <<envVars, embedder, constructions, cache, metaFile, indexFile, call, ret,
                   completed, built, metaWriter, cacheWriter, crashes, utilVars>>

\* rag.py:90-94
WriteMeta(t) ==
    /\ pc[t] = "meta"
    /\ metaFile' = MetaAfterDump(call[t].doc, call[t].chunks)
    /\ metaWriter' = [metaWriter EXCEPT ![call[t].doc] = t]
    /\ pc' = [pc EXCEPT ![t] = IF faissAvailable THEN "index" ELSE "cache"]
    /\ UNCHANGED <<envVars, embedder, constructions, cache, npyFile, indexFile, call, ret,
                   completed, built, npyWriter, cacheWriter, crashes, utilVars>>

\* rag.py:95-97
WriteIndex(t) ==
    /\ pc[t] = "index"
    /\ indexFile' = IndexAfterWrite(call[t].doc, call[t].chunks)
    /\ pc' = [pc EXCEPT ![t] = "cache"]
    /\ UNCHANGED <<envVars, embedder, constructions, cache, npyFile, metaFile, call, ret,
                   histVars, utilVars>>

\* rag.py:99 and the return
InstallCache(t) ==
    /\ pc[t] = "cache"
    /\ cache' = CacheAfterInstall(call[t].doc, call[t].chunks)
    /\ cacheWriter' = [cacheWriter EXCEPT ![call[t].doc] = t]
    /\ completed' = [completed EXCEPT ![call[t].doc] = call[t].chunks]
    /\ built' = [built EXCEPT ![call[t].doc] = BuiltEntry(call[t].chunks, faissAvailable)]
    /\ pc' = [pc EXCEPT ![t] = "done"]
    /\ ret' = UpsertReturned(call[t].doc, call[t].chunks)
    /\ UNCHANGED <<envVars, embedder, constructions, fileVars, call, npyWriter, metaWriter,
                   crashes, utilVars>>

---------------------------------------------------------------------------
(* _load_index and retrieve, rag.py:101-149 *)

\* faiss pads a result that has fewer than k rows with index -1 and this score
NegInf == -1000

\* rag.py:139-140  similarities = embeddings @ query_vec.T, flattened
Sims(M, qv) == [i \in 1 .. Len(M) |-> Dot(M[i], qv)]

\* row i is ranked before row j: higher score first, equal scores as `ties` says
Before(sims, ties, i, j) ==
    \/ sims[i] > sims[j]
    \/ sims[i] = sims[j] /\ (IF ties = "asc" THEN i < j ELSE i > j)

\* the rows 1..n in descending score order
Ranking(sims, ties) ==
    [r \in 1 .. Len(sims) |->
        CHOOSE i \in 1 .. Len(sims) :
            Cardinality({j \in 1 .. Len(sims) : Before(sims, ties, j, i)}) = r - 1]

\* rag.py:141  np.argsort(-sims)[:k], zero-based row numbers
ArgsortTopK(sims, k, ties) ==
    [r \in 1 .. Min(k, Len(sims)) |-> Ranking(sims, ties)[r] - 1]

\* rag.py:139-141 and the zip(idxs, sims) of rag.py:144: sims is the whole
\* similarity array in row order, idxs the k best rows
BruteForcePairs(emb, qv, k, ties) ==
    LET sims == Sims(emb, qv)
        idxs == ArgsortTopK(sims, k, ties)
    IN  [j \in 1 .. Min(Len(idxs), Len(sims)) |-> [i |-> idxs[j], score |-> sims[j]]]

\* rag.py:135-137 and the zip of rag.py:144: IndexFlatIP.search returns k
\* (score, row) pairs, best first
NativePairs(index, qv, k, ties) ==
    LET sims == Sims(index, qv)
        ord == Ranking(sims, ties)
    IN  [j \in 1 .. k |-> IF j <= Len(index)
                          THEN [i |-> ord[j] - 1, score |-> sims[ord[j]]]
                          ELSE [i |-> -1, score |-> NegInf]]

\* rag.py:143-148
Collect(pairs, doc_meta) ==
    LET Valid(p) == ~(p.i < 0 \/ p.i >= Len(doc_meta))
        kept == SelectSeq(pairs, Valid)
    IN  [j \in 1 .. Len(kept) |->
            [text |-> doc_meta[kept[j].i + 1].text,
             score |-> kept[j].score,
             chunk_index |-> doc_meta[kept[j].i + 1].chunk_index]]

\* rag.py:131-132  k = top_k or self.config.top_k; k = min(k, len(doc_meta))
ClampK(topk, doc_meta) == Min(IF topk # 0 THEN topk ELSE DefaultTopK, Len(doc_meta))

\* rag.py:130-149  the ranking of one loaded entry
RankEntry(e, q, topk, ties) ==
    Collect(IF e.hasIndex
            THEN NativePairs(e.index, QVec(q), ClampK(topk, e.meta), ties)
            ELSE BruteForcePairs(e.emb, QVec(q), ClampK(topk, e.meta), ties),
            e.meta)

\* rag.py:105-118  the entry _load_index builds from the files of d
EntryFromDisk(d) ==
    Entry(faissAvailable /\ indexFile[d].exists,
          IF faissAvailable /\ indexFile[d].exists THEN indexFile[d].data ELSE <<>>,
          metaFile[d].data.chunks,
          npyFile[d].data)

\* mutant: the existence check of rag.py:106-107 is left out
LoadIndexUnchecked(d) ==
    IF cache[d].present
    THEN [found |-> TRUE, entry |-> cache[d], diskRead |-> FALSE]
    ELSE [found |-> TRUE, entry |-> EntryFromDisk(d), diskRead |-> TRUE]

\* rag.py:101-119
LoadIndex(d) ==
    IF cache[d].present
    THEN [found |-> TRUE, entry |-> cache[d], diskRead |-> FALSE]
    ELSE IF ~metaFile[d].exists \/ ~npyFile[d].exists
    THEN [found |-> FALSE, entry |-> NoEntry, diskRead |-> FALSE]
    ELSE [found |-> TRUE, entry |-> EntryFromDisk(d), diskRead |-> TRUE]

\* rag.py:121-149: what retrieve returns or raises, and the cache entry and
\* embedder it leaves
Retrieve(d, q, topk, ties) ==
    IF StripEmpty(q)
    THEN [err |-> "none", results |-> <<>>, entry |-> cache[d], embedder |-> embedder,
          constructions |-> constructions, diskRead |-> FALSE, path |-> "none"]
    ELSE LET ld == LoadIndex(d) IN
         IF ~ld.found
         THEN [err |-> "none", results |-> <<>>, entry |-> cache[d], embedder |-> embedder,
               constructions |-> constructions, diskRead |-> FALSE, path |-> "none"]
         ELSE IF ~stAvailable
         THEN [err |-> "RuntimeError", results |-> <<>>, entry |-> ld.entry,
               embedder |-> embedder, constructions |-> constructions,
               diskRead |-> ld.diskRead, path |-> "none"]
         ELSE [err |-> "none", results |-> RankEntry(ld.entry, q, topk, ties),
               entry |-> ld.entry, embedder |-> TRUE,
               constructions |-> ConstructionsAfterGet, diskRead |-> ld.diskRead,
               path |-> IF ld.entry.hasIndex THEN "native" ELSE "brute"]

Search(t, d, q, topk) ==
    /\ Idle(t)
    /\ \E ties \in TieOrders :
         LET r == Retrieve(d, q, topk, ties) IN
         /\ cache' = [cache EXCEPT ![d] = r.entry]
         /\ embedder' = r.embedder
         /\ constructions' = r.constructions
         /\ ret' = [Blank EXCEPT !.op = "search", !.doc = d, !.query = q, !.k = topk,
                                 !.err = r.err, !.results = r.results,
                                 !.path = r.path, !.diskRead = r.diskRead]
    /\ UNCHANGED <<envVars, fileVars, pc, call, histVars, utilVars>>

---------------------------------------------------------------------------
(* build_context_prompt, rag.py:151-171, and truncate_text, utils.py:68-73 *)

\* len(clean[:stop]) for a string of L characters
SliceLen(L, stop) == IF stop >= 0 THEN Min(stop, L) ELSE Max(L + stop, 0)

\* utils.py:68-73: the length of the returned string and whether it ends in "..."
TruncateText(t, max_chars) ==
    IF StripLen(t) <= max_chars
    THEN [len |-> StripLen(t), ellipsis |-> FALSE]
    ELSE [len |-> SliceLen(StripLen(t), max_chars - 3) + 3, ellipsis |-> TRUE]

\* len(f"{score:.3f}") of a similarity: d.ddd, with a sign when negative
ScoreLen(score) == IF score < 0 THEN 6 ELSE 5

\* len(f"Source {idx} (score {score:.3f}):\n") for idx < 10
HeaderLen(idx, score) == 7 + 1 + 8 + ScoreLen(score) + 2 + 1

\* rag.py:158-159  len(block)
BlockLen(idx, result, remaining) ==
    HeaderLen(idx, result.score)
        + TruncateText(result.text, Min(remaining, maxContextChars)).len

\* rag.py:161  the break of the packing loop
StopsPacking(block_len, remaining, context_lines) ==
    block_len > remaining /\ context_lines # <<>>

\* rag.py:157-164  the packing loop from result idx on: the lengths of the blocks
RECURSIVE PackFrom(_, _, _, _)
PackFrom(retrieved, idx, remaining, context_lines) ==
    IF idx > Len(retrieved)
    THEN context_lines
    ELSE LET block == BlockLen(idx, retrieved[idx], remaining)
             block_len == block + 2
         IN  IF StopsPacking(block_len, remaining, context_lines)
             THEN context_lines
             ELSE PackFrom(retrieved, idx + 1, remaining - block_len,
                           Append(context_lines, block))

\* rag.py:155-164
Pack(retrieved) == PackFrom(retrieved, 1, maxContextChars, <<>>)

\* rag.py:157-162  the max_chars of each call of truncate_text in the packing
\* loop from result idx on, the call of the iteration that breaks included
RECURSIVE BudgetsFrom(_, _, _, _)
BudgetsFrom(retrieved, idx, remaining, context_lines) ==
    IF idx > Len(retrieved)
    THEN <<>>
    ELSE LET block == BlockLen(idx, retrieved[idx], remaining)
             block_len == block + 2
         IN  <<Min(remaining, maxContextChars)>>
                \o (IF StopsPacking(block_len, remaining, context_lines)
                    THEN <<>>
                    ELSE BudgetsFrom(retrieved, idx + 1, remaining - block_len,
                                     Append(context_lines, block)))

\* rag.py:155-162
Budgets(retrieved) == BudgetsFrom(retrieved, 1, maxContextChars, <<>>)

RECURSIVE Sum(_)
Sum(seq) == IF seq = <<>> THEN 0 ELSE Head(seq) + Sum(Tail(seq))

\* rag.py:165  len("\n\n".join(context_lines))
JoinLen(context_lines) ==
    IF context_lines = <<>> THEN 0 ELSE Sum(context_lines) + 2 * (Len(context_lines) - 1)

BuildContextPrompt(t, d, q, topk) ==
    /\ Idle(t)
    /\ \E ties \in TieOrders :
         LET r == Retrieve(d, q, topk, ties) IN
         /\ cache' = [cache EXCEPT ![d] = r.entry]
         /\ embedder' = r.embedder
         /\ constructions' = r.constructions
         /\ ret' = [Blank EXCEPT !.op = "build", !.doc = d, !.query = q, !.k = topk,
                                 !.err = r.err, !.results = r.results,
                                 !.path = r.path, !.diskRead = r.diskRead,
                                 !.out = IF r.err # "none" THEN "none"
                                         ELSE IF r.results = <<>> THEN "empty"
                                         ELSE "prompt",
                                 !.blocks = IF r.err # "none" \/ r.results = <<>>
                                            THEN <<>> ELSE Pack(r.results)]
    /\ UNCHANGED <<envVars, fileVars, pc, call, histVars, utilVars>>

(* A new process over the files the last one left: the imports,            *)
(* rag.py:12-23, and RagPipeline.__init__, rag.py:45-50, run again.        *)
NewProcess ==
    /\ embedder' = FALSE
    /\ constructions' = 0
    /\ cache' = [d \in Docs |-> NoEntry]
    /\ pc' = [t \in Callers |-> "idle"]
    /\ call' = [t \in Callers |-> NoCall]
    /\ ret' = Blank
    /\ completed' = [d \in Docs |-> <<>>]
    /\ npyWriter' = [d \in Docs |-> 0]
    /\ metaWriter' = [d \in Docs |-> 0]
    /\ cacheWriter' = [d \in Docs |-> 0]
    /\ UNCHANGED <<maxContextChars, fileVars, built, utilVars>>

\* the process ends between two operations; the next one may find either
\* optional import present or missing
Restart ==
    /\ \A t \in Callers : Idle(t)
    /\ NewProcess
    /\ stAvailable' \in BOOLEAN
    /\ faissAvailable' \in BOOLEAN
    /\ UNCHANGED crashes

\* the process dies at any point, inside upsert too, and is started again
Crash ==
    /\ crashes < MaxCrashes
    /\ crashes' = crashes + 1
    /\ NewProcess
    /\ UNCHANGED <<stAvailable, faissAvailable>>

---------------------------------------------------------------------------
(* make_doc_id, rag.py:173-175, and hash_bytes, utils.py:24-26 *)

\* the byte values of the letters "a" and "b"
ByteValues == {97, 98}

ByteStrings == UNION {[1 .. n -> ByteValues] : n \in 0 .. MaxBytes}

\* file names: strings of the letters "a" and "b"
FileNames == UNION {[1 .. n -> {"a", "b"}] : n \in 0 .. MaxBytes}

\* file_name.encode("utf-8"): one byte for each ASCII letter
EncodeUtf8(file_name) ==
    [i \in 1 .. Len(file_name) |-> IF file_name[i] = "a" THEN 97 ELSE 98]

\* the two hexadecimal digits of one byte
HexDigits(b) == <<b \div 16, b % 16>>

\* utils.py:26  hashlib.sha256(data).hexdigest(): a string of hexadecimal
\* digits fixed by the bytes alone; the digest is taken as free of collisions,
\* so it is modelled by an injective string of digits, the digits of the
\* bytes themselves
RECURSIVE hash_bytes(_)
hash_bytes(data) ==
    IF data = <<>> THEN <<>> ELSE HexDigits(Head(data)) \o hash_bytes(Tail(data))

\* rag.py:175  hash_bytes(file_bytes + file_name.encode("utf-8"))
make_doc_id(file_bytes, file_name) == hash_bytes(file_bytes \o EncodeUtf8(file_name))

IdCallers == {1, 2}

\* a call of make_doc_id that has its arguments and has not returned
IdCall(file_bytes, file_name) ==
    [file_bytes |-> file_bytes, file_name |-> file_name, id |-> <<>>, done |-> FALSE]

\* two calls of make_doc_id with any arguments, in a process that has both
\* optional imports
InitIds ==
    /\ InitStore /\ stAvailable /\ faissAvailable
    /\ maxContextChars = DefaultMaxContextChars
    /\ docIds \in [IdCallers -> {IdCall(b, n) : b \in ByteStrings, n \in FileNames}]
    /\ chunking = [pc |-> "none"]
    /\ extraction = [pc |-> "none"]

\* rag.py:173-175
MakeDocIdCall(c) ==
    /\ ~docIds[c].done
    /\ docIds' = [docIds EXCEPT
                    ![c].id = make_doc_id(docIds[c].file_bytes, docIds[c].file_name),
                    ![c].done = TRUE]
    /\ UNCHANGED <<ragVars, chunking, extraction>>

---------------------------------------------------------------------------
(* chunk_text, utils.py:29-65 *)

\* a stripped text of n words: the words 1 .. n in order, <<>> for a text that
\* is empty or all whitespace
StrippedTexts == {[i \in 1 .. n |-> i] : n \in 0 .. MaxWords}

\* utils.py:46  encoder.encode(text): the tokens of the text in order, two for
\* each word
Tokens(text) ==
    [i \in 1 .. 2 * Len(text) |-> [word |-> text[(i + 1) \div 2], part |-> 2 - (i % 2)]]

\* utils.py:57  text.split()
Words(text) == [i \in 1 .. Len(text) |-> [word |-> text[i], part |-> 0]]

\* utils.py:41  chunk_size = max(chunk_size, 1)
ClampChunkSize(chunk_size) == Max(chunk_size, 1)

\* utils.py:42  overlap = max(min(overlap, chunk_size - 1), 0), chunk_size clamped
ClampOverlap(overlap, chunk_size) == Max(Min(overlap, chunk_size - 1), 0)

\* utils.py:49, 60  step = max(chunk_size - overlap, 1)
Step(chunk_size, overlap) == Max(chunk_size - overlap, 1)

\* utils.py:51, 62  units[start : start + chunk_size], start counted from 0
Window(units, start, chunk_size) ==
    SubSeq(units, start + 1, Min(start + chunk_size, Len(units)))

\* utils.py:50-53, 61-64  the while loop from `start` on; a window stands for
\* the chunk that decoding or joining it gives
RECURSIVE Windows(_, _, _, _)
Windows(units, start, chunk_size, step) ==
    IF ~(start < Len(units))
    THEN <<>>
    ELSE <<Window(units, start, chunk_size)>>
            \o Windows(units, start + step, chunk_size, step)

\* utils.py:29-65, tiktoken: whether the import of utils.py:11-14 succeeded
chunk_text(text, chunk_size, overlap, tiktoken) ==
    IF text = <<>>
    THEN <<>>
    ELSE LET size == ClampChunkSize(chunk_size)
             ov == ClampOverlap(overlap, size)
         IN  Windows(IF tiktoken THEN Tokens(text) ELSE Words(text),
                     0, size, Step(size, ov))

\* a call of chunk_text with any arguments, chunk_size and overlap below and
\* above the range they are clamped to
InitChunk ==
    /\ InitStore /\ stAvailable /\ faissAvailable
    /\ maxContextChars = DefaultMaxContextChars
    /\ docIds = <<>>
    /\ chunking \in {[pc |-> "called", text |-> x, chunk_size |-> c, overlap |-> o,
                       tiktoken |-> k, chunks |-> <<>>] :
                          x \in StrippedTexts, c \in 0 .. MaxChunkSize,
                          o \in -1 .. MaxChunkSize, k \in BOOLEAN}
    /\ extraction = [pc |-> "none"]

ChunkTextCall ==
    /\ chunking.pc = "called"
    /\ chunking' = [chunking EXCEPT
                      !.pc = "returned",
                      !.chunks = chunk_text(chunking.text, chunking.chunk_size,
                                            chunking.overlap, chunking.tiktoken)]
    /\ UNCHANGED <<ragVars, docIds, extraction>>

---------------------------------------------------------------------------
(* DocumentIngestor, doc_ingest.py:40-119: the extraction of ingest *)

\* a text is the sequence of its parts, one for each page, image or paragraph
\* that gave text; "" is <<>>
Part(src, page) == [src |-> src, page |-> page]

\* a diagnostic string: its fixed wording, and the page number or suffix it
\* is formatted with
Diag(kind, page, suffix) == [kind |-> kind, page |-> page, suffix |-> suffix]

\* the outcomes of the calls on a sequence of pages, each with its page
\* number: enumerate(..., start=1)
Numbered(outcomes) == [i \in 1 .. Len(outcomes) |-> [page |-> i, out |-> outcomes[i]]]

HasText(p) == p.out = "text"
Fails(p) == p.out = "fail"

\* the parts a loop appends: the calls that returned text
PartsOf(visited, src) ==
    LET got == SelectSeq(visited, HasText)
    IN  [j \in 1 .. Len(got) |-> Part(src, got[j].page)]

\* the diagnostics a loop appends: one for each call that raised
DiagsOf(visited, kind) ==
    LET bad == SelectSeq(visited, Fails)
    IN  [j \in 1 .. Len(bad) |-> Diag(kind, bad[j].page, "")]

\* mutant: the page loop has no handler of its own and ends at the first page
\* that raises
PagesVisitedUntilFailure(file) ==
    IF file.pdf_open_fails
    THEN <<>>
    ELSE LET all == Numbered(file.pages)
             firstBad == IF \E i \in 1 .. Len(all) : Fails(all[i])
                         THEN CHOOSE i \in 1 .. Len(all) :
                                 Fails(all[i]) /\ \A j \in 1 .. i - 1 : ~Fails(all[j])
                         ELSE Len(all)
         IN  SubSeq(all, 1, firstBad)

\* doc_ingest.py:68-74  the pages the loop visits: none when PdfReader raises,
\* every page otherwise, a page that raises included
PagesVisited(file) == IF file.pdf_open_fails THEN <<>> ELSE Numbered(file.pages)

\* doc_ingest.py:86-108
ExtractPdfWithOcr(file) ==
    IF ~file.enable_ocr
    THEN [text |-> <<>>, diagnostics |-> <<Diag("OCR disabled by configuration.", 0, "")>>]
    ELSE IF ~file.ocr_deps
    THEN [text |-> <<>>, diagnostics |-> <<Diag("OCR dependencies missing", 0, "")>>]
    ELSE IF file.conversion_fails
    THEN [text |-> <<>>, diagnostics |-> <<Diag("OCR conversion failed", 0, "")>>]
    ELSE [text |-> PartsOf(Numbered(file.images), "ocr"),
          diagnostics |-> DiagsOf(Numbered(file.images), "OCR failed on page")
                            \o <<Diag("OCR extraction completed.", 0, "")>>]

\* doc_ingest.py:62-84
ExtractPdf(file) ==
    LET visited == PagesVisited(file)
        diagnostics == DiagsOf(visited, "Failed to read text on page")
                         \o (IF file.pdf_open_fails
                             THEN <<Diag("PDF parsing error", 0, "")>> ELSE <<>>)
        combined == PartsOf(visited, "pdf")
    IN  IF combined # <<>> \/ ~file.enable_ocr
        THEN [text |-> combined, diagnostics |-> diagnostics]
        ELSE LET ocr == ExtractPdfWithOcr(file)
             IN  [text |-> ocr.text, diagnostics |-> diagnostics \o ocr.diagnostics]

\* doc_ingest.py:110-119
ExtractDocx(file) ==
    IF file.docx_fails
    THEN [text |-> <<>>, diagnostics |-> <<Diag("DOCX parsing error", 0, "")>>]
    ELSE [text |-> PartsOf(Numbered(file.paragraphs), "docx"), diagnostics |-> <<>>]

\* doc_ingest.py:41  Path(file_name).suffix.lower()
Suffix(file_name) ==
    CASE file_name \in {"a.pdf", "a.PDF"} -> ".pdf"
      [] file_name = "a.docx" -> ".docx"
      [] file_name = "a.doc" -> ".doc"
      [] file_name = "a.bin" -> ".bin"
      [] OTHER -> ""

\* doc_ingest.py:50  file_bytes.decode("utf-8", errors="ignore"): the bytes
\* that decode, those that do not left out
DecodeIgnore(file) == PartsOf(Numbered(file.bytes), "plain")

\* doc_ingest.py:41-51: the text and diagnostics of ingest; no statement of
\* it that can fail is outside a try block, so it raises nothing
Ingest(file) ==
    LET suffix == Suffix(file.file_name)
        got == IF suffix = ".pdf"
               THEN ExtractPdf(file)
               ELSE IF suffix \in {".docx", ".doc"}
               THEN ExtractDocx(file)
               ELSE [text |-> DecodeIgnore(file),
                     diagnostics |-> <<Diag("Processed as plain text", 0,
                                            IF suffix = "" THEN "unknown" ELSE suffix)>>]
    IN  [raised |-> FALSE, text |-> got.text, diagnostics |-> got.diagnostics]

\* the outcomes of the calls on the pages, images, paragraphs or bytes of a file
Outcomes(kinds) == UNION {[1 .. n -> kinds] : n \in 0 .. MaxPages}

\* a file and everything that fails on it
Upload(file_name, pdf_open_fails, pages, enable_ocr, ocr_deps, conversion_fails, images, docx_fails, paragraphs, bytes) ==
    [file_name |-> file_name, pdf_open_fails |-> pdf_open_fails, pages |-> pages,
     enable_ocr |-> enable_ocr, ocr_deps |-> ocr_deps,
     conversion_fails |-> conversion_fails, images |-> images,
     docx_fails |-> docx_fails, paragraphs |-> paragraphs, bytes |-> bytes]

PdfUploads ==
    {Upload(n, o, p, e, d, c, i, FALSE, <<>>, <<>>) :
        n \in {"a.pdf", "a.PDF"}, o \in BOOLEAN, p \in Outcomes({"text", "blank", "fail"}),
        e \in BOOLEAN, d \in BOOLEAN, c \in BOOLEAN, i \in Outcomes({"text", "fail"})}

DocxUploads ==
    {Upload(n, FALSE, <<>>, e, FALSE, FALSE, <<>>, x, p, <<>>) :
        n \in {"a.docx", "a.doc"}, e \in BOOLEAN, x \in BOOLEAN,
        p \in Outcomes({"text", "blank"})}

\* the bytes of a plain file: runs that decode ("text") and runs that are not
\* UTF-8 ("bad")
PlainUploads ==
    {Upload(n, FALSE, <<>>, e, FALSE, FALSE, <<>>, FALSE, <<>>, b) :
        n \in {"a.bin", "a"}, e \in BOOLEAN, b \in Outcomes({"text", "bad"})}

NoResult == [raised |-> FALSE, text |-> <<>>, diagnostics |-> <<>>]

\* a call of ingest on any file
InitIngest ==
    /\ InitStore /\ stAvailable /\ faissAvailable
    /\ maxContextChars = DefaultMaxContextChars
    /\ docIds = <<>>
    /\ chunking = [pc |-> "none"]
    /\ extraction \in {[pc |-> "called", file |-> f, result |-> NoResult] :
                          f \in PdfUploads \cup DocxUploads \cup PlainUploads}

IngestCall ==
    /\ extraction.pc = "called"
    /\ extraction' = [extraction EXCEPT !.pc = "returned",
                                        !.result = Ingest(extraction.file)]
    /\ UNCHANGED <<ragVars, docIds, chunking>>

---------------------------------------------------------------------------
(* Specifications *)

UpsertCall(t) == \E d \in Docs, chunks \in ChunkLists : Upsert(t, d, chunks)
UpsertBeginCall(t) == \E d \in Docs, chunks \in ChunkLists : UpsertBegin(t, d, chunks)
SearchCall(t) == \E d \in Docs, q \in Queries, k \in TopKs : Search(t, d, q, k)
BuildCall(t) == \E d \in Docs, q \in Queries, k \in TopKs : BuildContextPrompt(t, d, q, k)

\* one caller, whole operations, the process replaced between operations
Next ==
    \/ \E t \in SeqCallers : UpsertCall(t)
    \/ \E t \in SeqCallers : SearchCall(t)
    \/ Restart

Spec == Init /\ [][Next]_vars

\* the same with build_context_prompt in the place of search, any context budget
NextCtx ==
    \/ \E t \in SeqCallers : UpsertCall(t)
    \/ \E t \in SeqCallers : BuildCall(t)
    \/ Restart

SpecCtx == InitCtx /\ [][NextCtx]_vars

\* one caller, the process may die between any two steps of upsert
NextCrash ==
    \/ \E t \in SeqCallers : UpsertBeginCall(t)
    \/ \E t \in SeqCallers : WriteNpy(t)
    \/ \E t \in SeqCallers : WriteMeta(t)
    \/ \E t \in SeqCallers : WriteIndex(t)
    \/ \E t \in SeqCallers : InstallCache(t)
    \/ \E t \in SeqCallers : SearchCall(t)
    \/ Crash

SpecCrash == Init /\ [][NextCrash]_vars

\* two callers of one process, one upsert each, their steps interleaved in any order
FirstCall(t) == pc[t] = "idle" /\ UpsertBeginCall(t)

NextConc ==
    \/ \E t \in Callers : FirstCall(t)
    \/ \E t \in Callers : WriteNpy(t)
    \/ \E t \in Callers : WriteMeta(t)
    \/ \E t \in Callers : WriteIndex(t)
    \/ \E t \in Callers : InstallCache(t)

SpecConc == Init /\ [][NextConc]_vars

\* one caller and one pipeline from its creation on, any sequence of its
\* three operations
NextLazy ==
    \/ \E t \in SeqCallers : UpsertCall(t)
    \/ \E t \in SeqCallers : SearchCall(t)
    \/ \E t \in SeqCallers : BuildCall(t)

SpecLazy == Init /\ [][NextLazy]_vars

\* two calls of make_doc_id
NextIds == \E c \in IdCallers : MakeDocIdCall(c)

SpecIds == InitIds /\ [][NextIds]_vars

\* one call of chunk_text
NextChunk == ChunkTextCall

SpecChunk == InitChunk /\ [][NextChunk]_vars

\* one call of ingest
NextIngest == IngestCall

SpecIngest == InitIngest /\ [][NextIngest]_vars

---------------------------------------------------------------------------
(* Claims *)

FilesAbsent(d) == ~npyFile[d].exists /\ ~metaFile[d].exists /\ ~indexFile[d].exists

\* the chunks of a result sequence, in rank order
ChunkSeq(results) == [i \in 1 .. Len(results) |-> results[i].chunk_index]

\* C1 (SpecCrash): a search that loads from disk, in a process that has the
\* embedding model, an index whose matrix has another number of rows than its
\* metadata has chunks (an upsert died between the two writes) raises an error
\* and returns no results.
C1_MismatchIsReported ==
    \A d \in Docs :
        (/\ ret.op = "search" /\ ret.doc = d /\ ret.diskRead
         /\ stAvailable /\ crashes > 0
         /\ Len(npyFile[d].data) # Len(metaFile[d].data.chunks))
        => (ret.err # "none" /\ ret.results = <<>>)

\* C2 (SpecCtx): the blocks build_context_prompt packs, joined by blank lines,
\* are at most max_context_chars long; stated for the default budget alone,
\* which the claim covers.
C2_ContextWithinBudget ==
    (ret.op = "build" /\ ret.out = "prompt" /\ maxContextChars = DefaultMaxContextChars)
    => JoinLen(ret.blocks) <= maxContextChars

\* C3 (SpecCtx): build_context_prompt never raises, and returns the empty
\* string when nothing was retrieved.
C3_BuildNeverRaises ==
    ret.op = "build" =>
        /\ ret.err = "none"
        /\ ret.out \in {"empty", "prompt"}
        /\ (ret.results = <<>> => ret.out = "empty")

\* C4 (Spec): a search of a doc_id that has no cache entry and no file returns
\* the empty sequence, raises nothing and leaves the cache without an entry
\* for it, for every query and top_k.
C4_NeverIndexedSearchEmpty ==
    \A d \in Docs :
        (ret.op = "search" /\ ret.doc = d /\ FilesAbsent(d))
        => (ret.results = <<>> /\ ret.err = "none" /\ ~cache[d].present)

C4_Witness ==
    \E d \in Docs :
        /\ ret.op = "search" /\ ret.doc = d /\ FilesAbsent(d)
        /\ ~StripEmpty(ret.query) /\ ret.k = 1 /\ stAvailable
        /\ ret.results = <<>>

\* C5 (Spec): an upsert with an empty chunk sequence raises the invalid-input
\* error and changes neither the embedder, nor a file, nor the cache, in every
\* store state.
C5_EmptyUpsertRejected ==
    [][(ret'.op = "upsert" /\ ret'.chunks = <<>>)
        => (/\ ret'.err = "ValueError"
            /\ UNCHANGED <<embedder, cache, npyFile, metaFile, indexFile>>)]_vars

C5_Witness ==
    \E d \in Docs :
        /\ ret.op = "upsert" /\ ret.doc = d /\ ret.chunks = <<>>
        /\ ret.err = "ValueError"
        /\ cache[d].present /\ npyFile[d].exists /\ embedder

\* C6 (Spec): once an upsert of a doc_id has returned in this process, the
\* cache entry is the state that upsert built, and every later search ranks
\* exactly that state and reads no file.
C6_CacheIsLastUpsert ==
    \A d \in Docs :
        completed[d] # <<>> =>
            /\ cache[d] = BuiltEntry(completed[d], faissAvailable)
            /\ (ret.op = "search" /\ ret.doc = d /\ ~StripEmpty(ret.query)) =>
                  /\ ret.err = "none"
                  /\ ~ret.diskRead
                  /\ \E ties \in TieOrders :
                        ret.results = RankEntry(BuiltEntry(completed[d], faissAvailable),
                                                ret.query, ret.k, ties)

\* a search after two upserts of the doc_id with different chunks, the files
\* of the earlier one still on disk
C6_Witness ==
    \E d \in Docs :
        /\ ret.op = "search" /\ ret.doc = d /\ ret.results # <<>>
        /\ completed[d] # <<>>
        /\ indexFile[d].exists /\ indexFile[d].data # Encode(completed[d])

\* C7 (Spec): a search that loads the files of a completed upsert in a fresh
\* process returns the chunks, in the order, that the same search returned
\* from the cache of the process that ran the upsert.
C7_FreshProcessSameRanking ==
    \A d \in Docs :
        (ret.op = "search" /\ ret.doc = d /\ ret.diskRead /\ ret.err = "none"
         /\ built[d].present)
        => \E ties \in TieOrders :
              ChunkSeq(ret.results) = ChunkSeq(RankEntry(built[d], ret.query, ret.k, ties))

\* C8 (Spec): the scores of the results of a search are non-increasing.
C8_ScoresDescending ==
    ret.op = "search" =>
        \A i \in 1 .. Len(ret.results) - 1 :
            ret.results[i].score >= ret.results[i + 1].score

\* C9 (Spec): over one embedding matrix the native path and the brute-force
\* path return the same chunks in the same order, and of two chunks of equal
\* score the one with the smaller chunk index comes first.
C9_PathsAgreeTiesAscending ==
    \A d \in Docs :
        (/\ ret.op = "search" /\ ret.doc = d /\ ret.path # "none"
         /\ cache[d].hasIndex => cache[d].index = cache[d].emb)
        => LET e == cache[d]
               qv == QVec(ret.query)
               k == ClampK(ret.k, e.meta)
               sims == Sims(e.emb, qv)
           IN  /\ \A ta \in TieOrders, tn \in TieOrders :
                     ChunkSeq(Collect(NativePairs(e.emb, qv, k, tn), e.meta))
                       = ChunkSeq(Collect(BruteForcePairs(e.emb, qv, k, ta), e.meta))
               /\ \A i \in 1 .. Len(ret.results), j \in 1 .. Len(ret.results) :
                     (i < j /\ sims[ret.results[i].chunk_index + 1]
                                 = sims[ret.results[j].chunk_index + 1])
                     => ret.results[i].chunk_index < ret.results[j].chunk_index

BothReturned(d) == \A t \in Callers : pc[t] = "done" /\ call[t].doc = d

\* C10 (SpecConc), as claimed: once two concurrent upserts of one doc_id have
\* both returned, the matrix file, the metadata document and the cache entry
\* all come from one and the same call.
C10_AllFromOneCall ==
    \A d \in Docs :
        BothReturned(d) =>
            \E t \in Callers :
                /\ npyFile[d].data = Encode(call[t].chunks)
                /\ metaFile[d].data = MetaDoc(DocMeta(call[t].chunks))
                /\ cache[d] = BuiltEntry(call[t].chunks, faissAvailable)

\* C10 (SpecConc), amended: once both have returned, each of the matrix file,
\* the metadata document and the cache entry is the one written by the call
\* that wrote it last; the three need not come from the same call.
C10_LastWriterPerArtifact ==
    \A d \in Docs :
        BothReturned(d) =>
            /\ npyWriter[d] \in Callers /\ metaWriter[d] \in Callers
            /\ cacheWriter[d] \in Callers
            /\ npyFile[d].data = Encode(call[npyWriter[d]].chunks)
            /\ metaFile[d].data = MetaDoc(DocMeta(call[metaWriter[d]].chunks))
            /\ cache[d] = BuiltEntry(call[cacheWriter[d]].chunks, faissAvailable)

\* both returned, with different chunks, the matrix of one beside the metadata
\* of the other
C10_Witness ==
    \E d \in Docs :
        /\ BothReturned(d)
        /\ call[1].chunks # call[2].chunks
        /\ npyWriter[d] # metaWriter[d]

\* C11 (SpecIds): two calls of make_doc_id with the same bytes and the same
\* file name return the same identity, and two calls whose bytes differ or
\* whose file names differ return different identities.
C11_IdentityTellsInputsApart ==
    \A c1 \in IdCallers, c2 \in IdCallers :
        (docIds[c1].done /\ docIds[c2].done) =>
            (docIds[c1].id = docIds[c2].id
                <=> (/\ docIds[c1].file_bytes = docIds[c2].file_bytes
                     /\ docIds[c1].file_name = docIds[c2].file_name))

\* the units two windows have in common
Shared(w1, w2) ==
    Cardinality({w1[i] : i \in 1 .. Len(w1)} \cap {w2[i] : i \in 1 .. Len(w2)})

\* C12 (SpecChunk): of the windows chunk_text returns for a non-empty text,
\* every one but the last has exactly chunk_size units and shares exactly
\* overlap units with the window after it, chunk_size and overlap clamped.
C12_WindowsFullAndOverlapping ==
    (chunking.pc = "returned" /\ chunking.text # <<>>) =>
        LET size == ClampChunkSize(chunking.chunk_size)
            ov == ClampOverlap(chunking.overlap, size)
        IN  /\ chunking.chunks # <<>>
            /\ \A i \in 1 .. Len(chunking.chunks) - 1 :
                  /\ Len(chunking.chunks[i]) = size
                  /\ Shared(chunking.chunks[i], chunking.chunks[i + 1]) = ov

\* C13 (SpecLazy): creating the pipeline constructs no embedding model; over
\* any sequence of upsert, search and build_context_prompt calls on one
\* pipeline the model is constructed at most once; and a search, alone or
\* inside build_context_prompt, whose query is empty or all whitespace or
\* whose doc_id has no index constructs none.
C13_ModelBuiltLazilyOnce ==
    /\ (constructions = 0 /\ ~embedder)
    /\ [](constructions <= 1)
    /\ [][(/\ ret'.op \in {"search", "build"}
           /\ StripEmpty(ret'.query) \/ ~LoadIndex(ret'.doc).found)
          => (constructions' = constructions /\ embedder' = embedder)]_vars

\* a search that ranked chunks after an upsert on the same pipeline: two
\* calls that needed the model, one construction
C13_Witness ==
    \E d \in Docs :
        /\ ret.op = "search" /\ ret.doc = d /\ ret.results # <<>>
        /\ completed[d] # <<>>
        /\ constructions = 1

Recorded(kind, page) ==
    \E i \in 1 .. Len(extraction.result.diagnostics) :
        /\ extraction.result.diagnostics[i].kind = kind
        /\ extraction.result.diagnostics[i].page = page

InText(src, page) ==
    \E i \in 1 .. Len(extraction.result.text) : extraction.result.text[i] = Part(src, page)

\* the file is a PDF whose reader opened and gave no page with text, and
\* recognition is enabled: the recognition path is taken
OcrTaken(f) ==
    /\ Suffix(f.file_name) = ".pdf" /\ f.enable_ocr
    /\ f.pdf_open_fails \/ \A i \in 1 .. Len(f.pages) : f.pages[i] # "text"

C15_SnippetFitsBudget ==
    (ret.op = "build" /\ ret.out = "prompt" /\ maxContextChars = DefaultMaxContextChars)
    => LET budgets == Budgets(ret.results)
       IN  \A i \in 1 .. Len(budgets) :
              LET text == ret.results[i].text
                  snippet == TruncateText(text, budgets[i])
              IN  /\ StripLen(text) <= budgets[i]
                     => (snippet.len = StripLen(text) /\ ~snippet.ellipsis)
                  /\ StripLen(text) > budgets[i] => snippet.ellipsis
                  /\ snippet.len <= budgets[i]

\* C16 (Spec): every result of a search carries the similarity of its own
\* chunk: the dot product of the query vector with the row of the embedding
\* matrix at the result's chunk_index, on the native and the brute-force path.
C16_ScoreIsOwnSimilarity ==
    \A d \in Docs :
        (ret.op = "search" /\ ret.doc = d /\ ret.path # "none")
        => \A i \in 1 .. Len(ret.results) :
              /\ ret.results[i].text = cache[d].meta[ret.results[i].chunk_index + 1].text
              /\ ret.results[i].score
                   = Dot(cache[d].emb[ret.results[i].chunk_index + 1], QVec(ret.query))

====
